---- MODULE Spec2Model ----
(***************************************************************************)
(* A model of ardere's ECSManager (src/ardere/aws.py): the per-step        *)
(* lifecycle (create_service, stop_finished_service(s)), the full-plan      *)
(* teardown (shutdown_plan) and the fleet arithmetic                        *)
(* (calculate_missing_instances), run by two ECSManager objects that share  *)
(* one ECS cluster; the thread-pool fan-outs (create_services,              *)
(* all_services_ready), the readiness test (service_ready) and the EC2      *)
(* reconciliation pass (query_active_instances, request_instances).         *)
(*                                                                         *)
(* Every handler is one action.  The remote ECS API is modelled by the      *)
(* cluster state `services` / `taskDefs`; each remote call either takes its *)
(* natural outcome or an injected fault, which is a botocore ClientError    *)
(* (the only class shutdown_plan catches) or some other exception.          *)
(***************************************************************************)
EXTENDS Integers, Sequences, FiniteSets, TLC

(***************************************************************************)
(* Bounds                                                                  *)
(***************************************************************************)
\* at most this many remote calls of one handler invocation are made to fail
MaxFaults == 1
\* at most this many active revisions of one task-definition family
MaxRevisions == 1
\* at most this many EC2 instances are ever launched
MaxInstances == 4
\* instance counts of the fleet mappings range over 0..MaxCount
MaxCount == 2

\* the wall-clock readings time.time() may return (seconds), and the plan
\* start times a caller passes to stop_finished_service(s)
ClockValues == {50, 69, 70, 140, 145}
StartTimes == {0, 5}
\* the readings used where timing is not the subject: one before every
\* deadline and one after (CoarseClock), or one after (LateClock)
CoarseClock == {50, 145}
LateClock == {145}
CoarseStart == {0}

Runs == {1, 2}

(***************************************************************************)
(* Plans.  Dicts are functions from keys to values; an optional key is a   *)
(* key that may be missing from the domain.                                 *)
(***************************************************************************)
HasKey(d, k) == k \in DOMAIN d
Get(d, k, default) == IF k \in DOMAIN d THEN d[k] ELSE default
Put(d, k, v) == [x \in DOMAIN d \cup {k} |-> IF x = k THEN v ELSE d[x]]

\* the outcome of evaluating an expression: a value or a raised exception
Raise(e) == [exc |-> e]
Val(v) == [exc |-> "none", val |-> v]

ecs_name == "ardere-test"

\* the step of tests/fixtures.py (no run_delay)
TestClusterStep ==
    [name |-> "TestCluster", instance_count |-> 1,
     instance_type |-> "t2.medium", run_max_time |-> 140, cpu_units |-> 2048]
\* a step with a start delay and no explicit cpu_units
DbStep ==
    [name |-> "db", instance_count |-> 2, instance_type |-> "c4.large",
     run_delay |-> 10, run_max_time |-> 60]
WebStep ==
    [name |-> "web", instance_count |-> 1, instance_type |-> "m4.large",
     run_max_time |-> 60]

\* the two steps of the timing scenario
SinglePlanSteps == <<TestClusterStep, DbStep>>

\* steps on an instance type the vcpu table leaves out (P2), with and
\* without an explicit cpu_units
GpuStep ==
    [name |-> "gpu", instance_count |-> 1, instance_type |-> "p2.xlarge",
     run_max_time |-> 60, cpu_units |-> 4096]
GpuDefaultStep ==
    [name |-> "gpu", instance_count |-> 1, instance_type |-> "p2.xlarge",
     run_max_time |-> 60]

\* uuid.uuid4().hex values (shortened), one per run
RunUUID(r) == IF r = 1 THEN "a1f0" ELSE "b2e9"

VARIABLES
    plan,       \* plan[r]: the plan dict of run r's ECSManager (self._plan)
    steps,      \* steps[r]: the step dicts of run r, mutated in place
    services,   \* the cluster's services: arn -> [desiredCount, owner]
    taskDefs,   \* active task definitions: family -> [revisions, owner]
    clock,      \* the latest wall-clock reading
    stopOk,     \* stopOk[r][i]: successful scale-downs by stop_finished_service
                \* of step i since its service was created
    last,       \* what the latest handler invocation did
    desired, current, needed, fleetPc,  \* calculate_missing_instances
    pool,       \* the ThreadPoolExecutor of a create_services or
                \* all_services_ready call in progress, and its futures
    instances,  \* the EC2 instances launched so far: [type, code, tagged]
    settled     \* "settled": a reconciliation pass has succeeded and no
                \* instance has left the pending and running states since
                \* its query; "clean": none has left since the last query;
                \* "unsettled" otherwise

vars == <<plan, steps, services, taskDefs, clock, stopOk, last,
          desired, current, needed, fleetPc, pool, instances, settled>>
\* the state the fan-out calls and the EC2 fleet calls add
poolVars == <<pool>>
ec2Vars == <<instances, settled>>
ecsVars == <<plan, steps, services, taskDefs, clock, stopOk, last>>
fleetVars == <<desired, current, needed, fleetPc>>

(***************************************************************************)
(* Names                                                                   *)
(***************************************************************************)
\* a family name that ignores the run identifier
family_name_no_uuid(r, step) == step["name"]
\* ECSManager.family_name, used by shutdown_plan
family_name(r, step) == step["name"] \o "-" \o plan[r]["plan_run_uuid"]

\* a family name that ignores the run identifier
create_family_no_uuid(r, step) == step["name"]
\* the family name create_service computes for its task definition
create_family(r, step) == step["name"] \o "-" \o plan[r]["plan_run_uuid"]

metrics_family_name == ecs_name \o "-metrics"

\* create_service names the cluster service after the step alone
service_name(step) == step["name"]

\* the ARN ECS gives the service of that name on this cluster; ECS accepts
\* either the name or the ARN to identify a service
ServiceArn(name) == "service/" \o name

Status(step) == Get(step, "service_status", "PENDING")

(***************************************************************************)
(* Faults.  A site is one remote call of a handler invocation.              *)
(***************************************************************************)
\* shutdown_plan catches ClientError alone; the other handlers catch nothing,
\* so there one kind of failure stands for all
FaultKinds == {"ClientError", "Error"}
\* no injected failure: every call takes the outcome the cluster gives it
NoFaults == {}
Site(api, target) == [api |-> api, target |-> target]
\* the subsets of S with at most k elements
RECURSIVE SubsetsUpTo(_, _)
SubsetsUpTo(S, k) ==
    IF k = 0 THEN {{}}
    ELSE LET P == SubsetsUpTo(S, k - 1)
         IN  P \cup {X \cup {x} : X \in P, x \in S}
FaultMaps(sites, kinds) ==
    UNION {[D -> kinds] : D \in SubsetsUpTo(sites, MaxFaults)}
\* the outcome of a call: the injected fault, else what the cluster answers
Outcome(F, site, natural) == IF site \in DOMAIN F THEN F[site] ELSE natural
\* a remote call as made: `arg` is its count or cpu argument, `owner` the run
\* that had created the resource it names (0: none, or not applicable)
Call(site, arg, owner, result) ==
    [api |-> site.api, target |-> site.target, arg |-> arg, owner |-> owner,
     result |-> result]

NoLast ==
    [op |-> "none", run |-> 0, step |-> 0, start |-> 0, nows |-> <<>>,
     pre |-> <<>>, calls |-> <<>>, raised |-> "none",
     listed |-> <<>>, toDelete |-> <<>>, families |-> <<>>,
     response |-> [t |-> "None"], returned |-> [exc |-> "none"],
     launched |-> <<>>]

StatusSeq(r) == [i \in 1..Len(steps[r]) |-> Status(steps[r][i])]

\* has a call with this api, target and result been made by the last handler
Made(api, target, result) ==
    \E k \in 1..Len(last.calls) :
        /\ last.calls[k].api = api
        /\ last.calls[k].target = target
        /\ last.calls[k].result = result
Attempted(api, target) ==
    \E k \in 1..Len(last.calls) :
        last.calls[k].api = api /\ last.calls[k].target = target
NumAttempts(api, target) ==
    Cardinality({k \in 1..Len(last.calls) :
        last.calls[k].api = api /\ last.calls[k].target = target})

\* a deterministic enumeration of a set (the order list_services answers in)
RECURSIVE SetToSeq(_)
SetToSeq(S) ==
    IF S = {} THEN <<>>
    ELSE LET x == CHOOSE y \in S : TRUE IN <<x>> \o SetToSeq(S \ {x})

\* list.remove(x): drops the first occurrence of x
RECURSIVE Remove(_, _)
Remove(seq, x) ==
    IF seq = <<>> THEN <<>>
    ELSE IF Head(seq) = x THEN Tail(seq)
    ELSE <<Head(seq)>> \o Remove(Tail(seq), x)

InSeq(seq, x) == \E k \in 1..Len(seq) : seq[k] = x

Without(f, k) == [x \in DOMAIN f \ {k} |-> f[x]]

(***************************************************************************)
(* CapacityModel                                                           *)
(***************************************************************************)
ec2_type_by_vcpu ==
    [v \in {1, 2, 4, 8, 16, 32, 36, 40, 64, 128} |->
        CASE v = 1 -> {"t2.nano", "t2.micro", "t2.small", "m3.medium"}
          [] v = 2 -> {"t2.medium", "t2.large", "m3.large", "m4.large",
                       "c3.large", "c4.large", "r3.large", "r4.large"}
          [] v = 4 -> {"t2.xlarge", "m3.xlarge", "m4.xlarge", "c3.xlarge",
                       "c4.xlarge", "r3.xlarge", "r4.xlarge"}
          [] v = 8 -> {"t2.2xlarge", "m3.2xlarge", "m4.2xlarge", "c3.2xlarge",
                       "c4.2xlarge", "r3.2xlarge", "r4.2xlarge"}
          [] v = 16 -> {"m4.4xlarge", "c3.4xlarge", "c4.4xlarge",
                        "r3.4xlarge", "r4.4xlarge"}
          [] v = 32 -> {"c3.8xlarge", "r3.8xlarge", "r4.8xlarge"}
          [] v = 36 -> {"c4.8xlarge"}
          [] v = 40 -> {"m4.10xlarge"}
          [] v = 64 -> {"m4.16xlarge", "x1.16xlarge", "r4.16xlarge"}
          [] v = 128 -> {"x1.32xlarge"}]

ec2_vcpu_by_type ==
    [t \in UNION {ec2_type_by_vcpu[v] : v \in DOMAIN ec2_type_by_vcpu} |->
        CHOOSE v \in DOMAIN ec2_type_by_vcpu : t \in ec2_type_by_vcpu[v]]

cpu_units_for_instance_type(instance_type) ==
    (ec2_vcpu_by_type[instance_type] * 1024) - 512

(***************************************************************************)
(* ServiceOrchestrator: create_service                                     *)
(***************************************************************************)
\* a create_service that marks the step STARTED before the service is made
create_service_status_first(r, i, F) ==
    LET step == steps[r][i]
        fam == create_family(r, step)
        regSite == Site("register_task_definition", fam)
        arn == ServiceArn(service_name(step))
        creSite == Site("create_service", arn)
        reg == Outcome(F, regSite, "ok")
        cre == Outcome(F, creSite,
                       IF arn \in DOMAIN services THEN "ClientError" ELSE "ok")
        rev == IF fam \in DOMAIN taskDefs
               THEN taskDefs[fam].revisions + 1 ELSE 1
        tds == Put(taskDefs, fam, [revisions |-> rev, owner |-> r])
        task_arn == [family |-> fam, revision |-> rev]
        same == [step |-> step, services |-> services, taskDefs |-> taskDefs,
                 calls |-> <<>>, raised |-> "none"]
    IN  IF step["instance_type"] \notin DOMAIN ec2_vcpu_by_type
        THEN [same EXCEPT !.raised = "KeyError"]
        ELSE LET cpu_units == Get(step, "cpu_units",
                     cpu_units_for_instance_type(step["instance_type"]))
                 c1 == <<Call(regSite, cpu_units, 0, reg)>>
                 c2 == c1 \o <<Call(creSite, step["instance_count"], 0, cre)>>
             IN  IF reg # "ok"
                 THEN [same EXCEPT !.calls = c1, !.raised = reg]
                 ELSE IF cre # "ok"
                 THEN [same EXCEPT !.step = Put(Put(step, "taskArn", task_arn),
                                                "service_status", "STARTED"),
                                   !.taskDefs = tds,
                                   !.calls = c2, !.raised = cre]
                 ELSE [same EXCEPT
                         !.step = Put(Put(Put(step, "taskArn", task_arn),
                                          "serviceArn", arn),
                                      "service_status", "STARTED"),
                         !.taskDefs = tds,
                         !.services = Put(services, arn,
                             [desiredCount |-> step["instance_count"],
                              owner |-> r]),
                         !.calls = c2]

\* the result of a handler: the step (or steps) as mutated, the cluster as
\* changed, the remote calls made in order, and the exception that left it
create_service(r, i, F) ==
    LET step == steps[r][i]
        fam == create_family(r, step)
        regSite == Site("register_task_definition", fam)
        arn == ServiceArn(service_name(step))
        creSite == Site("create_service", arn)
        reg == Outcome(F, regSite, "ok")
        cre == Outcome(F, creSite,
                       IF arn \in DOMAIN services THEN "ClientError" ELSE "ok")
        rev == IF fam \in DOMAIN taskDefs
               THEN taskDefs[fam].revisions + 1 ELSE 1
        tds == Put(taskDefs, fam, [revisions |-> rev, owner |-> r])
        task_arn == [family |-> fam, revision |-> rev]
        same == [step |-> step, services |-> services, taskDefs |-> taskDefs,
                 calls |-> <<>>, raised |-> "none"]
    IN  \* the default of step.get("cpu_units", ...) is evaluated first
        IF step["instance_type"] \notin DOMAIN ec2_vcpu_by_type
        THEN [same EXCEPT !.raised = "KeyError"]
        ELSE LET cpu_units == Get(step, "cpu_units",
                     cpu_units_for_instance_type(step["instance_type"]))
                 c1 == <<Call(regSite, cpu_units, 0, reg)>>
                 c2 == c1 \o <<Call(creSite, step["instance_count"], 0, cre)>>
             IN  IF reg # "ok"
                 THEN [same EXCEPT !.calls = c1, !.raised = reg]
                 ELSE IF cre # "ok"
                 THEN [same EXCEPT !.step = Put(step, "taskArn", task_arn),
                                   !.taskDefs = tds,
                                   !.calls = c2, !.raised = cre]
                 ELSE [same EXCEPT
                         !.step = Put(Put(Put(step, "taskArn", task_arn),
                                          "serviceArn", arn),
                                      "service_status", "STARTED"),
                         !.taskDefs = tds,
                         !.services = Put(services, arn,
                             [desiredCount |-> step["instance_count"],
                              owner |-> r]),
                         !.calls = c2]

\* create_service as a worker thread of create_services runs it, one remote
\* call at a time.  Up to and including register_task_definition:
register_step(r, step, tds, F) ==
    LET fam == create_family(r, step)
        regSite == Site("register_task_definition", fam)
        reg == Outcome(F, regSite, "ok")
        rev == IF fam \in DOMAIN tds THEN tds[fam].revisions + 1 ELSE 1
        task_arn == [family |-> fam, revision |-> rev]
        same == [step |-> step, taskDefs |-> tds, calls |-> <<>>,
                 raised |-> "none"]
    IN  IF step["instance_type"] \notin DOMAIN ec2_vcpu_by_type
        THEN [same EXCEPT !.raised = "KeyError"]
        ELSE LET cpu_units == Get(step, "cpu_units",
                     cpu_units_for_instance_type(step["instance_type"]))
                 c1 == <<Call(regSite, cpu_units, 0, reg)>>
             IN  IF reg # "ok"
                 THEN [same EXCEPT !.calls = c1, !.raised = reg]
                 ELSE [same EXCEPT
                         !.step = Put(step, "taskArn", task_arn),
                         !.taskDefs = Put(tds, fam,
                                          [revisions |-> rev, owner |-> r]),
                         !.calls = c1]

\* and from the create_service call to the return
create_step(r, step, svcs, F) ==
    LET arn == ServiceArn(service_name(step))
        creSite == Site("create_service", arn)
        cre == Outcome(F, creSite,
                       IF arn \in DOMAIN svcs THEN "ClientError" ELSE "ok")
        c2 == <<Call(creSite, step["instance_count"], 0, cre)>>
    IN  IF cre # "ok"
        THEN [step |-> step, services |-> svcs, calls |-> c2,
              raised |-> cre]
        ELSE [step |-> Put(Put(step, "serviceArn", arn),
                           "service_status", "STARTED"),
              services |-> Put(svcs, arn,
                               [desiredCount |-> step["instance_count"],
                                owner |-> r]),
              calls |-> c2, raised |-> "none"]

\* ThreadPoolExecutor(max_workers=8)
max_workers == 8

\* the futures a worker thread is running
Running(futures) ==
    {i \in 1..Len(futures) : futures[i].state = "registered"}

\* a pool that drops the queued futures once one has failed
CancelledAfterFailure(futures, i) ==
    /\ futures[i].state = "queued"
    /\ \E j \in 1..Len(futures) :
          futures[j].state = "done" /\ futures[j].result.exc # "none"
\* leaving the with block waits for every future (shutdown(wait=True)):
\* none is cancelled
Cancelled(futures, i) == FALSE

\* future.result(): what the call returned or raised; a future that never
\* ran raises CancelledError
FutureResult(future) ==
    IF future.state = "done" THEN future.result ELSE Raise("CancelledError")

\* results in the order the futures completed (as_completed)
as_completed_results(futures, order) ==
    [k \in 1..Len(order) |-> FutureResult(futures[order[k]])]
\* executor.map yields the results in the order of its input
map_results(futures, order) ==
    [k \in 1..Len(futures) |-> FutureResult(futures[k])]

\* list(results): the values in order; the first result that raised is
\* re-raised
RECURSIVE list_results(_)
list_results(results) ==
    IF results = <<>> THEN Val(<<>>)
    ELSE IF Head(results).exc # "none" THEN Head(results)
    ELSE LET rest == list_results(Tail(results))
         IN  IF rest.exc # "none" THEN rest
             ELSE Val(<<Head(results).val>> \o rest.val)

(***************************************************************************)
(* LifecycleController: stop_finished_service(s)                           *)
(***************************************************************************)
\* a read that takes a missing status for PENDING: step.get(...)
ReadStatusDefault(step) == Get(step, "service_status", "PENDING")
\* step["service_status"]: a step never started has no such key
ReadStatus(step) ==
    IF HasKey(step, "service_status") THEN step["service_status"]
    ELSE "KeyError"

\* a check that never returns early
AlreadyStoppedNever(status) == FALSE
\* if step["service_status"] == "STOPPED": return
AlreadyStopped(status) == status = "STOPPED"

\* a comparison that is off by the boundary
NotYetDueInclusive(start_time, now, step) ==
    now <= (start_time + (Get(step, "run_delay", 0) + step["run_max_time"]))
\* an edge-triggered timer: only a reading at the deadline itself is due
NotYetDueEdge(start_time, now, step) ==
    now # (start_time + (Get(step, "run_delay", 0) + step["run_max_time"]))
NotYetDue(start_time, now, step) ==
    LET step_duration == Get(step, "run_delay", 0) + step["run_max_time"]
    IN  now < (start_time + step_duration)

\* a stop that swallows the failure of update_service and marks the step
\* STOPPED all the same
stop_finished_service_swallow(step, svcs, start_time, now, F) ==
    LET site == Site("update_service", step["name"])
        arn == ServiceArn(step["name"])
        upd == Outcome(F, site,
                       IF arn \in DOMAIN svcs THEN "ok" ELSE "ClientError")
        same == [step |-> step, services |-> svcs, calls |-> <<>>,
                 raised |-> "none", read |-> FALSE]
    IN  IF ReadStatus(step) = "KeyError"
        THEN [same EXCEPT !.raised = "KeyError"]
        ELSE IF AlreadyStopped(ReadStatus(step)) THEN same
        ELSE IF NotYetDue(start_time, now, step)
        THEN [same EXCEPT !.read = TRUE]
        ELSE IF upd # "ok"
        THEN [same EXCEPT !.read = TRUE, !.calls = <<Call(site, 0, 0, upd)>>,
                          !.step = Put(step, "service_status", "STOPPED")]
        ELSE [same EXCEPT
                !.read = TRUE,
                !.calls = <<Call(site, 0, 0, upd)>>,
                !.services = [svcs EXCEPT ![arn].desiredCount = 0],
                !.step = Put(step, "service_status", "STOPPED")]

\* on (step, services): returns them as changed, the calls, the exception and
\* whether time.time() was read
stop_finished_service(step, svcs, start_time, now, F) ==
    LET site == Site("update_service", step["name"])
        arn == ServiceArn(step["name"])
        upd == Outcome(F, site,
                       IF arn \in DOMAIN svcs THEN "ok" ELSE "ClientError")
        same == [step |-> step, services |-> svcs, calls |-> <<>>,
                 raised |-> "none", read |-> FALSE]
    IN  IF ReadStatus(step) = "KeyError"
        THEN [same EXCEPT !.raised = "KeyError"]
        ELSE IF AlreadyStopped(ReadStatus(step)) THEN same
        ELSE IF NotYetDue(start_time, now, step)
        THEN [same EXCEPT !.read = TRUE]
        ELSE IF upd # "ok"
        THEN [same EXCEPT !.read = TRUE, !.calls = <<Call(site, 0, 0, upd)>>,
                          !.raised = upd]
        ELSE [same EXCEPT
                !.read = TRUE,
                !.calls = <<Call(site, 0, 0, upd)>>,
                !.services = [svcs EXCEPT ![arn].desiredCount = 0],
                !.step = Put(step, "service_status", "STOPPED")]

\* for step in steps: self.stop_finished_service(start_time, step)
\* acc = [steps, services, calls, raised, stopped, now]
RECURSIVE stop_loop(_, _, _, _, _)
stop_loop(i, start_time, nows, F, acc) ==
    IF i > Len(acc.steps) \/ acc.raised # "none" THEN acc
    ELSE CHOOSE out \in
            {stop_loop(i + 1, start_time, nows, F,
                 [steps |-> [acc.steps EXCEPT ![i] = res.step],
                  services |-> res.services,
                  calls |-> acc.calls \o res.calls,
                  raised |-> res.raised,
                  now |-> IF res.read THEN nows[i] ELSE acc.now]) :
             res \in {stop_finished_service(acc.steps[i], acc.services,
                                            start_time, nows[i], F)}} : TRUE

stop_finished_services(r, start_time, nows, F) ==
    stop_loop(1, start_time, nows, F,
        [steps |-> steps[r], services |-> services, calls |-> <<>>,
         raised |-> "none", now |-> clock])

(***************************************************************************)
(* Metrics service                                                         *)
(***************************************************************************)
\* describe_services(services=["metrics"]): the service dict, or None
None == [none |-> TRUE]
locate_metrics_service(svcs) ==
    IF ServiceArn("metrics") \in DOMAIN svcs
    THEN [serviceArn |-> ServiceArn("metrics")]
    ELSE None

create_influxdb_service(r, F) ==
    LET options == plan[r]["influx_options"]
        fam == metrics_family_name
        regSite == Site("register_task_definition", fam)
        arn == ServiceArn("metrics")
        creSite == Site("create_service", arn)
        reg == Outcome(F, regSite, "ok")
        cre == Outcome(F, creSite,
                       IF arn \in DOMAIN services THEN "ClientError" ELSE "ok")
        rev == IF fam \in DOMAIN taskDefs
               THEN taskDefs[fam].revisions + 1 ELSE 1
        tds == Put(taskDefs, fam, [revisions |-> rev, owner |-> r])
        same == [services |-> services, taskDefs |-> taskDefs,
                 calls |-> <<>>, raised |-> "none"]
    IN  IF options["instance_type"] \notin DOMAIN ec2_vcpu_by_type
        THEN [same EXCEPT !.raised = "KeyError"]
        ELSE LET cpu == cpu_units_for_instance_type(options["instance_type"])
                 c1 == <<Call(regSite, cpu, 0, reg)>>
                 c2 == c1 \o <<Call(creSite, 1, 0, cre)>>
             IN  IF reg # "ok"
                 THEN [same EXCEPT !.calls = c1, !.raised = reg]
                 ELSE IF cre # "ok"
                 THEN [same EXCEPT !.taskDefs = tds, !.calls = c2,
                                   !.raised = cre]
                 ELSE [same EXCEPT
                         !.taskDefs = tds,
                         !.services = Put(services, arn,
                             [desiredCount |-> 1, owner |-> r]),
                         !.calls = c2]

(***************************************************************************)
(* LifecycleController: shutdown_plan                                      *)
(***************************************************************************)
\* a bare `except:` catches every failure
CaughtAny(result) == result # "ok"
\* except botocore.exceptions.ClientError
Caught(result) == result = "ClientError"

\* a teardown that deletes a service whose scale-down failed (`pass`)
DeleteAfterFailedUpdateAlways(upd) == TRUE
\* `except ClientError: continue` skips the delete of that service
DeleteAfterUpdate(upd) == upd = "ok"

\* the loop over service_arns; acc = [services, taskDefs, calls, raised]
RECURSIVE service_loop(_, _, _)
service_loop(arns, F, acc) ==
    IF arns = <<>> \/ acc.raised # "none" THEN acc
    ELSE LET arn == Head(arns)
             uSite == Site("update_service", arn)
             dSite == Site("delete_service", arn)
             upd == Outcome(F, uSite,
                      IF arn \in DOMAIN acc.services
                      THEN "ok" ELSE "ClientError")
             svcs1 == IF upd = "ok"
                      THEN [acc.services EXCEPT ![arn].desiredCount = 0]
                      ELSE acc.services
             del == Outcome(F, dSite,
                      IF arn \in DOMAIN svcs1 THEN "ok" ELSE "ClientError")
             owner == IF arn \in DOMAIN acc.services
                      THEN acc.services[arn].owner ELSE 0
             c1 == acc.calls \o <<Call(uSite, 0, owner, upd)>>
             c2 == c1 \o <<Call(dSite, 0, owner, del)>>
         IN  IF upd # "ok" /\ ~Caught(upd)
             THEN [acc EXCEPT !.calls = c1, !.raised = upd]
             ELSE IF ~DeleteAfterUpdate(upd)
             THEN service_loop(Tail(arns), F, [acc EXCEPT !.calls = c1])
             ELSE IF del # "ok" /\ ~Caught(del)
             THEN [acc EXCEPT !.services = svcs1, !.calls = c2,
                              !.raised = del]
             ELSE service_loop(Tail(arns), F,
                     [acc EXCEPT
                        !.services = IF del = "ok" THEN Without(svcs1, arn)
                                     ELSE svcs1,
                        !.calls = c2])

\* the loop over step_family_names
RECURSIVE family_loop(_, _, _)
family_loop(fams, F, acc) ==
    IF fams = <<>> \/ acc.raised # "none" THEN acc
    ELSE LET fam == Head(fams)
             qSite == Site("describe_task_definition", fam)
             rSite == Site("deregister_task_definition", fam)
             found == fam \in DOMAIN acc.taskDefs
             desc == Outcome(F, qSite, IF found THEN "ok" ELSE "ClientError")
             dereg == Outcome(F, rSite, IF found THEN "ok" ELSE "ClientError")
             task_arn == IF found THEN acc.taskDefs[fam].revisions ELSE 0
             owner == IF found THEN acc.taskDefs[fam].owner ELSE 0
             c1 == acc.calls \o <<Call(qSite, 0, owner, desc)>>
             c2 == c1 \o <<Call(rSite, task_arn, owner, dereg)>>
             tds == IF dereg = "ok"
                    THEN IF acc.taskDefs[fam].revisions = 1
                         THEN Without(acc.taskDefs, fam)
                         ELSE [acc.taskDefs EXCEPT
                                 ![fam].revisions = @ - 1]
                    ELSE acc.taskDefs
         IN  IF desc # "ok" /\ ~Caught(desc)
             THEN [acc EXCEPT !.calls = c1, !.raised = desc]
             ELSE IF desc # "ok"
             THEN family_loop(Tail(fams), F, [acc EXCEPT !.calls = c1])
             ELSE IF dereg # "ok" /\ ~Caught(dereg)
             THEN [acc EXCEPT !.calls = c2, !.raised = dereg]
             ELSE family_loop(Tail(fams), F,
                     [acc EXCEPT !.taskDefs = tds, !.calls = c2])

\* a teardown that always excludes nothing
ServicesToDeleteAll(r, listed, metric_service) == listed
\* lines 435-441: the metrics service is taken out of the listed ARNs when
\* tear down of the metrics was not requested
ServicesToDelete(r, listed, metric_service) ==
    IF ~plan[r]["influx_options"]["tear_down"]
       /\ metric_service # None
       /\ InSeq(listed, metric_service["serviceArn"])
    THEN Remove(listed, metric_service["serviceArn"])
    ELSE listed

\* lines 461-466
FamiliesToDeregister(r) ==
    [i \in 1..Len(steps[r]) |-> family_name(r, steps[r][i])]
        \o (IF plan[r]["influx_options"]["tear_down"]
            THEN <<metrics_family_name>> ELSE <<>>)

shutdown_plan(r, F) ==
    LET listSite == Site("list_services", ecs_name)
        lst == Outcome(F, listSite, "ok")
        listed == SetToSeq(DOMAIN services)
        locSite == Site("describe_services", "metrics")
        locate == ~plan[r]["influx_options"]["tear_down"]
        loc == Outcome(F, locSite, "ok")
        metric_service == IF locate THEN locate_metrics_service(services)
                          ELSE None
        service_arns == ServicesToDelete(r, listed, metric_service)
        fams == FamiliesToDeregister(r)
        same == [services |-> services, taskDefs |-> taskDefs,
                 calls |-> <<>>, raised |-> "none",
                 listed |-> <<>>, toDelete |-> <<>>, families |-> <<>>]
        c0 == <<Call(listSite, 0, 0, lst)>>
        c1 == IF locate THEN c0 \o <<Call(locSite, 0, 0, loc)>> ELSE c0
    IN  IF lst # "ok"
        THEN [same EXCEPT !.calls = c0, !.raised = lst]
        ELSE IF locate /\ loc # "ok"
        THEN [same EXCEPT !.calls = c1, !.raised = loc, !.listed = listed]
        ELSE LET a == service_loop(service_arns, F,
                        [services |-> services, taskDefs |-> taskDefs,
                         calls |-> c1, raised |-> "none"])
                 b == family_loop(fams, F, a)
             IN  [services |-> b.services, taskDefs |-> b.taskDefs,
                  calls |-> b.calls, raised |-> b.raised,
                  listed |-> listed, toDelete |-> service_arns,
                  families |-> IF a.raised = "none" THEN fams ELSE <<>>]

(***************************************************************************)
(* CapacityModel: calculate_missing_instances                              *)
(***************************************************************************)
\* a comparison that also emits satisfied types
calculate_missing_instances_le(des, cur) ==
    LET types == {t \in DOMAIN des : Get(cur, t, 0) <= des[t]}
    IN  [t \in types |-> des[t] - Get(cur, t, 0)]
calculate_missing_instances(des, cur) ==
    LET types == {t \in DOMAIN des : Get(cur, t, 0) < des[t]}
    IN  [t \in types |-> des[t] - Get(cur, t, 0)]

(***************************************************************************)
(* FleetProvisioner: query_active_instances, request_instances             *)
(***************************************************************************)
\* instance state codes: 0 pending, 16 running, 32 shutting-down,
\* 48 terminated
StateCodes == {0, 16, 32, 48}

\* a filter that counts the running instances alone
IsActiveRunningOnly(instance) == instance.tagged /\ instance.code = 16
\* the tag filters of describe_instances (Owner and ECSCluster, both set by
\* create_tags) and `instance["State"]["Code"] <= 16`
IsActive(instance) == instance.tagged /\ instance.code <= 16

\* query_active_instances: the active instances counted by type; a
\* defaultdict holds the types met and no other
query_active_instances(insts) ==
    LET met == {insts[k].type : k \in {j \in 1..Len(insts) :
                                          IsActive(insts[j])}}
    IN  [t \in met |->
            Cardinality({k \in 1..Len(insts) :
                            IsActive(insts[k]) /\ insts[k].type = t})]

\* a launch of one instance whatever the count asked for
LaunchCountOne(instance_count) == 1
\* MinCount=instance_count, MaxCount=instance_count
LaunchCount(instance_count) == instance_count

\* the instances run_instances returns: pending, not yet tagged
Launched(instance_type, n) ==
    [k \in 1..n |-> [type |-> instance_type, code |-> 0, tagged |-> FALSE]]

\* the loop over instances.items(), in the order `types` the dict gives;
\* acc = [instances, ids, calls, raised]
RECURSIVE launch_loop(_, _, _, _)
launch_loop(types, wanted, F, acc) ==
    IF types = <<>> \/ acc.raised # "none" THEN acc
    ELSE LET instance_type == Head(types)
             instance_count == wanted[instance_type]
             site == Site("run_instances", instance_type)
             res == Outcome(F, site, "ok")
             n == LaunchCount(instance_count)
             call == Call(site, instance_count, 0, res)
         IN  IF res # "ok"
             THEN [acc EXCEPT !.calls = Append(@, call), !.raised = res]
             ELSE launch_loop(Tail(types), wanted, F,
                     [acc EXCEPT
                        !.instances = @ \o Launched(instance_type, n),
                        !.ids = @ \o [k \in 1..n |->
                                         Len(acc.instances) + k],
                        !.calls = Append(@, call)])

\* request_instances(instances): the launches, then one create_tags for
\* every instance id they returned
request_instances(wanted, types, insts, F) ==
    LET a == launch_loop(types, wanted, F,
                 [instances |-> insts, ids |-> <<>>, calls |-> <<>>,
                  raised |-> "none"])
        site == Site("create_tags", ecs_name)
        res == Outcome(F, site, "ok")
        ids == {a.ids[k] : k \in 1..Len(a.ids)}
        call == Call(site, ids, 0, res)
    IN  IF a.raised # "none" THEN a
        ELSE IF res # "ok"
        THEN [a EXCEPT !.calls = Append(@, call), !.raised = res]
        ELSE [a EXCEPT
                !.instances = [k \in 1..Len(a.instances) |->
                                 IF k \in ids
                                 THEN [a.instances[k] EXCEPT !.tagged = TRUE]
                                 ELSE a.instances[k]],
                !.calls = Append(@, call)]

(***************************************************************************)
(* Readiness: service_ready, all_services_ready                            *)
(***************************************************************************)
\* Python values of a describe_services response: None, a list, a dict;
\* the counts are plain integers
PyNone == [t |-> "None"]
PyList(seq) == [t |-> "list", v |-> seq]
PyDict(rec) == [t |-> "dict", v |-> rec]

\* x[key] for a string key
GetKey(x, key) ==
    IF x.exc # "none" THEN x
    ELSE CASE x.val.t = "None" -> Raise("TypeError")
           [] x.val.t = "list" -> Raise("TypeError")
           [] x.val.t = "dict" ->
                IF key \in DOMAIN x.val.v THEN Val(x.val.v[key])
                ELSE Raise("KeyError")
\* x[n] for an integer index n >= 0
GetIndex(x, n) ==
    IF x.exc # "none" THEN x
    ELSE CASE x.val.t = "None" -> Raise("TypeError")
           [] x.val.t = "list" ->
                IF n + 1 \in 1..Len(x.val.v) THEN Val(x.val.v[n + 1])
                ELSE Raise("IndexError")
           [] x.val.t = "dict" -> Raise("KeyError")

\* except (TypeError, IndexError): return False
ReadyCaught == {"TypeError", "IndexError"}

\* service_ready on the response describe_services gave
service_ready(response) ==
    LET deploy == GetIndex(GetKey(GetIndex(GetKey(Val(response), "services"),
                                           0), "deployments"), 0)
        dc == GetKey(deploy, "desiredCount")
        rc == GetKey(deploy, "runningCount")
    IN  IF deploy.exc \in ReadyCaught THEN Val(FALSE)
        ELSE IF deploy.exc # "none" THEN deploy
        ELSE IF dc.exc # "none" THEN dc
        ELSE IF rc.exc # "none" THEN rc
        ELSE Val(dc.val = rc.val)

\* the service dict ECS describes a service by, with one deployment
ServiceDescription(name, desiredCount, runningCount) ==
    PyDict([serviceName |-> name,
            deployments |-> PyList(<<PyDict(
                [desiredCount |-> desiredCount,
                 runningCount |-> runningCount])>>)])

\* what describe_services(services=[name]) may answer: the service as it
\* is on the cluster with any number of its tasks running, or no service;
\* and the shapes service_ready guards against: a service with no
\* deployments, and a descriptor without deployment information (the
\* deployments, or the services, null or missing from the dict)
Responses(name) ==
    LET arn == ServiceArn(name)
        natural ==
            IF arn \in DOMAIN services
            THEN {PyDict([services |-> PyList(<<ServiceDescription(name,
                            services[arn].desiredCount, k)>>)]) :
                     k \in 0..services[arn].desiredCount}
            ELSE {PyDict([services |-> PyList(<<>>)])}
        shapes ==
            {PyDict([services |-> PyList(<<PyDict(
                        [serviceName |-> name,
                         deployments |-> PyList(<<>>)])>>)]),
             PyDict([services |-> PyList(<<PyDict(
                        [serviceName |-> name,
                         deployments |-> PyNone])>>)]),
             PyDict([services |-> PyList(<<PyDict(
                        [serviceName |-> name])>>)]),
             PyDict([services |-> PyNone])}
    IN  natural \cup shapes

\* one future of all_services_ready: the describe_services call and
\* service_ready's result on its response
ready_future(name, F, response) ==
    LET site == Site("describe_services", name)
        res == Outcome(F, site, "ok")
    IN  [state |-> "done",
         calls |-> <<Call(site, 0, 0, res)>>,
         response |-> response,
         result |-> IF res = "ok" THEN service_ready(response)
                    ELSE Raise(res)]

\* any(results)
RECURSIVE any_results(_)
any_results(results) ==
    IF results = <<>> THEN Val(FALSE)
    ELSE IF Head(results).exc # "none" THEN Head(results)
    ELSE IF Head(results).val THEN Val(TRUE)
    ELSE any_results(Tail(results))
\* all(results) over the results of executor.map, in the order of the
\* steps: a result that raised is re-raised when all() reaches it, and
\* all() stops at the first False
RECURSIVE all_results(_)
all_results(results) ==
    IF results = <<>> THEN Val(TRUE)
    ELSE IF Head(results).exc # "none" THEN Head(results)
    ELSE IF ~Head(results).val THEN Val(FALSE)
    ELSE all_results(Tail(results))

(***************************************************************************)
(* Initial state: the ECSManager objects of the runs, nothing created yet. *)
(* A run without steps takes no part.                                       *)
(***************************************************************************)
InitEcs(stepLists1, stepLists2, tearDowns) ==
    /\ \E td \in tearDowns :
         plan = [r \in Runs |->
                   [ecs_name |-> ecs_name,
                    plan_run_uuid |-> RunUUID(r),
                    influx_options |-> [instance_type |-> "c4.large",
                                        tear_down |-> td[r]]]]
    /\ \E s1 \in stepLists1, s2 \in stepLists2 :
         steps = [r \in Runs |-> IF r = 1 THEN s1 ELSE s2]
    /\ services = <<>>
    /\ taskDefs = <<>>
    /\ clock = 0
    /\ stopOk = [r \in Runs |-> [i \in 1..Len(steps[r]) |-> 0]]
    /\ last = NoLast

InitFleetIdle ==
    /\ desired = <<>>
    /\ current = <<>>
    /\ needed = <<>>
    /\ fleetPc = "idle"

\* no fan-out call in progress.  `futures` holds one future per step, in
\* the order executor.map submitted them; `order` the indexes in the order
\* the futures completed; `snap` the steps and the cluster when the call
\* began; `result` what the call returned or raised
NoPool ==
    [op |-> "idle", run |-> 0, phase |-> "idle", futures |-> <<>>,
     order |-> <<>>, snap |-> <<>>, result |-> [exc |-> "none"]]

\* no fan-out call in progress, no instance launched
InitIdle ==
    /\ pool = NoPool
    /\ instances = <<>>
    /\ settled = "unsettled"

(***************************************************************************)
(* Actions                                                                 *)
(***************************************************************************)
Has(calls, api, target, result) ==
    \E k \in 1..Len(calls) :
        /\ calls[k].api = api
        /\ calls[k].target = target
        /\ calls[k].result = result

Revisions(fam) == IF fam \in DOMAIN taskDefs THEN taskDefs[fam].revisions ELSE 0

CreateService(r, i) ==
    LET step == steps[r][i]
        fam == create_family(r, step)
        arn == ServiceArn(service_name(step))
    IN  /\ Revisions(fam) < MaxRevisions
        /\ \E F \in FaultMaps({Site("register_task_definition", fam),
                               Site("create_service", arn)},
                              {"ClientError"}) :
             LET res == create_service(r, i, F)
             IN  /\ steps' = [steps EXCEPT ![r][i] = res.step]
                 /\ services' = res.services
                 /\ taskDefs' = res.taskDefs
                 /\ stopOk' = IF res.raised = "none"
                              THEN [stopOk EXCEPT ![r][i] = 0] ELSE stopOk
                 /\ last' = [NoLast EXCEPT !.op = "create_service",
                               !.run = r, !.step = i, !.pre = StatusSeq(r),
                               !.calls = res.calls, !.raised = res.raised]
        /\ UNCHANGED <<plan, clock>>
        /\ UNCHANGED fleetVars
        /\ UNCHANGED <<poolVars, ec2Vars>>

CreateMetricsService(r) ==
    /\ Revisions(metrics_family_name) < MaxRevisions
    /\ \E F \in FaultMaps({Site("register_task_definition",
                                metrics_family_name),
                           Site("create_service", ServiceArn("metrics"))},
                          {"ClientError"}) :
         LET res == create_influxdb_service(r, F)
         IN  /\ services' = res.services
             /\ taskDefs' = res.taskDefs
             /\ last' = [NoLast EXCEPT !.op = "create_influxdb_service",
                           !.run = r, !.pre = StatusSeq(r),
                           !.calls = res.calls, !.raised = res.raised]
    /\ UNCHANGED <<plan, steps, clock, stopOk>>
    /\ UNCHANGED fleetVars
    /\ UNCHANGED <<poolVars, ec2Vars>>

Bump(n) == IF n < 2 THEN n + 1 ELSE n

\* stop_finished_service(start_time, step), the clock read from `clocks`
MaybeStopStep(r, i, starts, clocks) ==
    /\ \E start_time \in starts, now \in clocks,
          F \in FaultMaps({Site("update_service", steps[r][i]["name"])},
                          {"ClientError"}) :
         /\ now >= clock
         /\ LET res == stop_finished_service(steps[r][i], services,
                                             start_time, now, F)
            IN  /\ steps' = [steps EXCEPT ![r][i] = res.step]
                /\ services' = res.services
                /\ clock' = IF res.read THEN now ELSE clock
                /\ stopOk' = IF Has(res.calls, "update_service",
                                    steps[r][i]["name"], "ok")
                             THEN [stopOk EXCEPT ![r][i] = Bump(@)]
                             ELSE stopOk
                /\ last' = [NoLast EXCEPT !.op = "stop_finished_service",
                              !.run = r, !.step = i, !.start = start_time,
                              !.nows = IF res.read THEN <<now>> ELSE <<>>,
                              !.pre = StatusSeq(r),
                              !.calls = res.calls, !.raised = res.raised]
    /\ UNCHANGED <<plan, taskDefs>>
    /\ UNCHANGED fleetVars
    /\ UNCHANGED <<poolVars, ec2Vars>>

\* the readings of time.time() during one call: one per step, none earlier
\* than the one before
ClockReadings(n, clocks) ==
    {ns \in [1..n -> clocks] :
        /\ ns[1] >= clock
        /\ \A k \in 1..(n - 1) : ns[k] <= ns[k + 1]}

StopAllDue(r, starts, clocks) ==
    /\ \E start_time \in starts,
          nows \in ClockReadings(Len(steps[r]), clocks),
          F \in FaultMaps({Site("update_service", steps[r][i]["name"]) :
                             i \in 1..Len(steps[r])}, {"ClientError"}) :
         LET res == stop_finished_services(r, start_time, nows, F)
         IN  /\ steps' = [steps EXCEPT ![r] = res.steps]
             /\ services' = res.services
             /\ clock' = res.now
             /\ stopOk' = [stopOk EXCEPT ![r] =
                    [i \in 1..Len(steps[r]) |->
                       IF Has(res.calls, "update_service",
                              steps[r][i]["name"], "ok")
                       THEN Bump(stopOk[r][i]) ELSE stopOk[r][i]]]
             /\ last' = [NoLast EXCEPT !.op = "stop_finished_services",
                           !.run = r, !.start = start_time, !.nows = nows,
                           !.pre = StatusSeq(r),
                           !.calls = res.calls, !.raised = res.raised]
    /\ UNCHANGED <<plan, taskDefs>>
    /\ UNCHANGED fleetVars
    /\ UNCHANGED <<poolVars, ec2Vars>>

TeardownSites(r) ==
    {Site("list_services", ecs_name), Site("describe_services", "metrics")}
    \cup {Site(api, arn) : api \in {"update_service", "delete_service"},
                           arn \in DOMAIN services}
    \cup {Site(api, FamiliesToDeregister(r)[k]) :
            api \in {"describe_task_definition",
                     "deregister_task_definition"},
            k \in 1..Len(FamiliesToDeregister(r))}

TeardownPlan(r, kinds) ==
    /\ \E F \in FaultMaps(TeardownSites(r), kinds) :
         LET res == shutdown_plan(r, F)
         IN  /\ services' = res.services
             /\ taskDefs' = res.taskDefs
             /\ last' = [NoLast EXCEPT !.op = "shutdown_plan", !.run = r,
                           !.pre = StatusSeq(r),
                           !.calls = res.calls, !.raised = res.raised,
                           !.listed = res.listed,
                           !.toDelete = res.toDelete,
                           !.families = res.families]
    /\ UNCHANGED <<plan, steps, clock, stopOk>>
    /\ UNCHANGED fleetVars
    /\ UNCHANGED <<poolVars, ec2Vars>>

\* no fan-out call is waiting for its futures
PoolIdle == pool.phase # "running"

\* the calls the futures of the pool made, in the order they completed
RECURSIVE FutureCalls(_)
FutureCalls(order) ==
    IF order = <<>> THEN <<>>
    ELSE pool.futures[Head(order)].calls \o FutureCalls(Tail(order))

\* service_ready(step), called on its own
ServiceReady(r, i) ==
    /\ PoolIdle
    /\ \E response \in Responses(steps[r][i]["name"]),
          F \in FaultMaps({Site("describe_services", steps[r][i]["name"])},
                          {"ClientError"}) :
         LET fut == ready_future(steps[r][i]["name"], F, response)
         IN  last' = [NoLast EXCEPT !.op = "service_ready", !.run = r,
                        !.step = i, !.pre = StatusSeq(r),
                        !.calls = fut.calls, !.raised = fut.result.exc,
                        !.response = response, !.returned = fut.result]
    /\ pool' = NoPool
    /\ UNCHANGED <<plan, steps, services, taskDefs, clock, stopOk>>
    /\ UNCHANGED fleetVars
    /\ UNCHANGED ec2Vars

\* all_services_ready(steps): executor.map submits one service_ready per step
StartAllReady(r) ==
    /\ PoolIdle
    /\ pool' = [NoPool EXCEPT
                  !.op = "all_services_ready", !.run = r,
                  !.phase = "running",
                  !.futures = [i \in 1..Len(steps[r]) |->
                                 [state |-> "queued"]],
                  !.snap = [steps |-> steps[r], services |-> services,
                            taskDefs |-> taskDefs]]
    /\ last' = [NoLast EXCEPT !.op = "all_services_ready", !.run = r,
                  !.pre = StatusSeq(r)]
    /\ UNCHANGED <<plan, steps, services, taskDefs, clock, stopOk>>
    /\ UNCHANGED fleetVars
    /\ UNCHANGED ec2Vars

\* a worker thread runs the service_ready of step i
CheckReady(i) ==
    /\ pool.op = "all_services_ready"
    /\ pool.phase = "running"
    /\ pool.futures[i].state = "queued"
    /\ LET name == steps[pool.run][i]["name"]
       IN  \E response \in Responses(name),
              F \in FaultMaps({Site("describe_services", name)},
                              {"ClientError"}) :
             pool' = [pool EXCEPT
                        !.futures[i] = ready_future(name, F, response),
                        !.order = Append(@, i)]
    /\ UNCHANGED ecsVars
    /\ UNCHANGED fleetVars
    /\ UNCHANGED ec2Vars

\* the with block has waited for every future; all(results) decides
CollectReady ==
    /\ pool.op = "all_services_ready"
    /\ pool.phase = "running"
    /\ \A i \in 1..Len(pool.futures) : pool.futures[i].state = "done"
    /\ LET result == all_results([i \in 1..Len(pool.futures) |->
                                    pool.futures[i].result])
       IN  /\ pool' = [pool EXCEPT !.phase = "returned", !.result = result]
           /\ last' = [NoLast EXCEPT !.op = "all_services_ready",
                         !.run = pool.run, !.pre = StatusSeq(pool.run),
                         !.calls = FutureCalls(pool.order),
                         !.raised = result.exc, !.returned = result]
    /\ UNCHANGED <<plan, steps, services, taskDefs, clock, stopOk>>
    /\ UNCHANGED fleetVars
    /\ UNCHANGED ec2Vars

\* the remote calls of a create_services batch
BatchSites(r) ==
    UNION {{Site("register_task_definition", create_family(r, steps[r][i])),
            Site("create_service", ServiceArn(service_name(steps[r][i])))} :
              i \in 1..Len(steps[r])}

\* create_services(steps): executor.map submits one create_service per step
StartCreateServices(r) ==
    /\ PoolIdle
    /\ \A i \in 1..Len(steps[r]) :
          Revisions(create_family(r, steps[r][i])) < MaxRevisions
    /\ \E F \in FaultMaps(BatchSites(r), {"ClientError"}) :
         pool' = [op |-> "create_services", run |-> r, phase |-> "running",
                  futures |-> [i \in 1..Len(steps[r]) |->
                                 [state |-> "queued", calls |-> <<>>]],
                  order |-> <<>>,
                  snap |-> [steps |-> steps[r], services |-> services,
                            taskDefs |-> taskDefs, faults |-> F],
                  result |-> [exc |-> "none"]]
    /\ last' = [NoLast EXCEPT !.op = "create_services", !.run = r,
                  !.pre = StatusSeq(r)]
    /\ UNCHANGED <<plan, steps, services, taskDefs, clock, stopOk>>
    /\ UNCHANGED fleetVars
    /\ UNCHANGED ec2Vars

\* a worker thread takes the create_service of step i up to its
\* register_task_definition call
WorkerRegister(i) ==
    /\ pool.op = "create_services"
    /\ pool.phase = "running"
    /\ pool.futures[i].state = "queued"
    /\ ~Cancelled(pool.futures, i)
    /\ Cardinality(Running(pool.futures)) < max_workers
    /\ LET r == pool.run
           res == register_step(r, steps[r][i], taskDefs, pool.snap.faults)
       IN  /\ steps' = [steps EXCEPT ![r][i] = res.step]
           /\ taskDefs' = res.taskDefs
           /\ pool' = IF res.raised = "none"
                      THEN [pool EXCEPT
                              !.futures[i] = [state |-> "registered",
                                              calls |-> res.calls]]
                      ELSE [pool EXCEPT
                              !.futures[i] = [state |-> "done",
                                              calls |-> res.calls,
                                              result |-> Raise(res.raised)],
                              !.order = Append(@, i)]
    /\ UNCHANGED <<plan, services, clock, stopOk, last>>
    /\ UNCHANGED fleetVars
    /\ UNCHANGED ec2Vars

\* the same thread goes on with the create_service call and returns
WorkerCreate(i) ==
    /\ pool.op = "create_services"
    /\ pool.phase = "running"
    /\ pool.futures[i].state = "registered"
    /\ LET r == pool.run
           res == create_step(r, steps[r][i], services, pool.snap.faults)
       IN  /\ steps' = [steps EXCEPT ![r][i] = res.step]
           /\ services' = res.services
           /\ stopOk' = IF res.raised = "none"
                        THEN [stopOk EXCEPT ![r][i] = 0] ELSE stopOk
           /\ pool' = [pool EXCEPT
                         !.futures[i] =
                            [state |-> "done",
                             calls |-> pool.futures[i].calls \o res.calls,
                             result |-> IF res.raised = "none"
                                        THEN Val(res.step)
                                        ELSE Raise(res.raised)],
                         !.order = Append(@, i)]
    /\ UNCHANGED <<plan, taskDefs, clock, last>>
    /\ UNCHANGED fleetVars
    /\ UNCHANGED ec2Vars

\* the with block has waited for the futures; list(results) is returned
CollectCreateServices ==
    /\ pool.op = "create_services"
    /\ pool.phase = "running"
    /\ \A i \in 1..Len(pool.futures) :
          pool.futures[i].state = "done" \/ Cancelled(pool.futures, i)
    /\ LET result == list_results(map_results(pool.futures, pool.order))
       IN  /\ pool' = [pool EXCEPT !.phase = "returned", !.result = result]
           /\ last' = [NoLast EXCEPT !.op = "create_services",
                         !.run = pool.run, !.pre = pool.snap.steps,
                         !.calls = FutureCalls(pool.order),
                         !.raised = result.exc, !.returned = result]
    /\ UNCHANGED <<plan, steps, services, taskDefs, clock, stopOk>>
    /\ UNCHANGED fleetVars
    /\ UNCHANGED ec2Vars

\* the orders a dict of these keys may be iterated in
Orders(S) ==
    {seq \in [1..Cardinality(S) -> S] :
        \A j, k \in 1..Cardinality(S) : j # k => seq[j] # seq[k]}

\* the sum of the counts of a fleet mapping
RECURSIVE Total(_)
Total(fleet) ==
    IF DOMAIN fleet = {} THEN 0
    ELSE LET t == CHOOSE x \in DOMAIN fleet : TRUE
         IN  fleet[t] + Total([x \in DOMAIN fleet \ {t} |-> fleet[x]])

\* a reconciliation pass begins: query_active_instances()
QueryActive ==
    /\ fleetPc \in {"idle", "requested", "failed"}
    /\ current' = query_active_instances(instances)
    /\ needed' = <<>>
    /\ fleetPc' = "queried"
    /\ settled' = IF settled = "settled" THEN "settled" ELSE "clean"
    /\ last' = [NoLast EXCEPT !.op = "query_active_instances", !.run = 1]
    /\ UNCHANGED <<plan, steps, services, taskDefs, clock, stopOk>>
    /\ UNCHANGED <<desired, instances>>
    /\ UNCHANGED poolVars

\* calculate_missing_instances(desired, current) on what the query gave
DiffFleet ==
    /\ fleetPc = "queried"
    /\ needed' = calculate_missing_instances(desired, current)
    /\ fleetPc' = "diffed"
    /\ UNCHANGED <<desired, current>>
    /\ UNCHANGED ecsVars
    /\ UNCHANGED <<poolVars, ec2Vars>>

\* request_instances(needed)
RequestInstances ==
    /\ fleetPc = "diffed"
    /\ Len(instances) + Total(needed) <= MaxInstances
    /\ \E types \in Orders(DOMAIN needed),
          F \in FaultMaps({Site("run_instances", t) : t \in DOMAIN needed}
                            \cup {Site("create_tags", ecs_name)},
                          {"ClientError"}) :
         LET res == request_instances(needed, types, instances, F)
         IN  /\ instances' = res.instances
             /\ fleetPc' = IF res.raised = "none" THEN "requested"
                           ELSE "failed"
             /\ settled' = IF res.raised = "none" /\ settled = "clean"
                           THEN "settled" ELSE settled
             /\ last' = [NoLast EXCEPT !.op = "request_instances",
                           !.run = 1, !.pre = settled,
                           !.calls = res.calls, !.raised = res.raised,
                           !.launched = res.ids]
    /\ UNCHANGED <<plan, steps, services, taskDefs, clock, stopOk>>
    /\ UNCHANGED <<desired, current, needed>>
    /\ UNCHANGED poolVars

\* EC2: a pending instance starts running
InstanceRuns(k) ==
    /\ instances[k].code = 0
    /\ instances' = [instances EXCEPT ![k].code = 16]
    /\ UNCHANGED ecsVars
    /\ UNCHANGED fleetVars
    /\ UNCHANGED <<poolVars, settled>>

\* EC2: an instance is shut down, or has terminated
InstanceLeaves(k) ==
    /\ instances[k].code < 48
    /\ instances' = [instances EXCEPT
                       ![k].code = IF @ <= 16 THEN 32 ELSE 48]
    /\ settled' = IF instances[k].code <= 16 THEN "unsettled" ELSE settled
    /\ UNCHANGED ecsVars
    /\ UNCHANGED fleetVars
    /\ UNCHANGED poolVars

(***************************************************************************)
(* Spec: one plan run on the cluster, every operation of its ECSManager    *)
(***************************************************************************)
Init ==
    /\ InitEcs({<<TestClusterStep>>}, {<<>>},
               {td \in [Runs -> BOOLEAN] : ~td[2]})
    /\ InitFleetIdle
    /\ InitIdle

Next ==
    \/ \E i \in 1..Len(steps[1]) : CreateService(1, i)
    \/ CreateMetricsService(1)
    \/ \E i \in 1..Len(steps[1]) :
          MaybeStopStep(1, i, CoarseStart, CoarseClock)
    \/ StopAllDue(1, CoarseStart, CoarseClock)
    \/ TeardownPlan(1, FaultKinds)

Spec == Init /\ [][Next]_vars

(***************************************************************************)
(* SpecStop: the timed shutdown of one plan run, at every clock reading    *)
(***************************************************************************)
NextStop ==
    \/ \E i \in 1..Len(steps[1]) : CreateService(1, i)
    \/ \E i \in 1..Len(steps[1]) :
          MaybeStopStep(1, i, StartTimes, ClockValues)
    \/ StopAllDue(1, StartTimes, ClockValues)

InitStop ==
    /\ InitEcs({SinglePlanSteps}, {<<>>}, {[r \in Runs |-> FALSE]})
    /\ InitFleetIdle
    /\ InitIdle

SpecStop == InitStop /\ [][NextStop]_vars

(***************************************************************************)
(* SpecShared: two plan runs, with distinct run identifiers, on one cluster *)
(***************************************************************************)
InitShared ==
    /\ InitEcs({<<TestClusterStep>>}, {<<TestClusterStep>>, <<WebStep>>},
               {td \in [Runs -> BOOLEAN] : ~td[2]})
    /\ InitFleetIdle
    /\ InitIdle

NextShared ==
    \/ \E r \in Runs : \E i \in 1..Len(steps[r]) : CreateService(r, i)
    \/ \E r \in Runs : CreateMetricsService(r)
    \/ \E r \in Runs : \E i \in 1..Len(steps[r]) :
          MaybeStopStep(r, i, CoarseStart, LateClock)
    \/ \E r \in Runs : TeardownPlan(r, NoFaults)

SpecShared == InitShared /\ [][NextShared]_vars

(***************************************************************************)
(* SpecFleet: the fleet arithmetic on its own; the mappings are the inputs *)
(***************************************************************************)
InstanceTypes == {"t2.medium", "c4.large"}
FleetMaps ==
    UNION {[D -> 0..MaxCount] : D \in SUBSET InstanceTypes}

InitFleet ==
    /\ InitEcs({SinglePlanSteps}, {<<>>}, {[r \in Runs |-> FALSE]})
    /\ desired \in FleetMaps
    /\ current \in FleetMaps
    /\ needed = <<>>
    /\ fleetPc = "idle"
    /\ InitIdle

CalculateMissing ==
    /\ fleetPc = "idle"
    /\ needed' = calculate_missing_instances(desired, current)
    /\ fleetPc' = "diffed"
    /\ UNCHANGED <<desired, current>>
    /\ UNCHANGED ecsVars
    /\ UNCHANGED <<poolVars, ec2Vars>>

NextFleet == CalculateMissing

SpecFleet == InitFleet /\ [][NextFleet]_vars

(***************************************************************************)
(* SpecReady: the readiness polls of one plan run                          *)
(***************************************************************************)
InitReady ==
    /\ InitEcs({SinglePlanSteps}, {<<>>}, {[r \in Runs |-> FALSE]})
    /\ InitFleetIdle
    /\ InitIdle

NextReady ==
    \/ \E i \in 1..Len(steps[1]) : PoolIdle /\ CreateService(1, i)
    \/ \E i \in 1..Len(steps[1]) : ServiceReady(1, i)
    \/ StartAllReady(1)
    \/ \E i \in 1..Len(steps[1]) : CheckReady(i)
    \/ CollectReady

SpecReady == InitReady /\ [][NextReady]_vars

(***************************************************************************)
(* SpecBatch: the services of one plan run, created as a batch             *)
(***************************************************************************)
InitBatch ==
    /\ InitEcs({<<TestClusterStep, DbStep, WebStep>>,
                <<TestClusterStep, GpuStep, DbStep>>,
                <<GpuDefaultStep, WebStep>>},
               {<<>>}, {[r \in Runs |-> FALSE]})
    /\ InitFleetIdle
    /\ InitIdle

NextBatch ==
    \/ StartCreateServices(1)
    \/ \E i \in 1..Len(steps[1]) : WorkerRegister(i)
    \/ \E i \in 1..Len(steps[1]) : WorkerCreate(i)
    \/ CollectCreateServices

SpecBatch == InitBatch /\ [][NextBatch]_vars

(***************************************************************************)
(* SpecReconcile: the reconciliation passes of the fleet of one cluster    *)
(***************************************************************************)
\* the fleets a plan may ask for: a positive count for some of the types
DesiredFleets ==
    UNION {[D -> 1..MaxCount] : D \in SUBSET InstanceTypes}

InitReconcile ==
    /\ InitEcs({SinglePlanSteps}, {<<>>}, {[r \in Runs |-> FALSE]})
    /\ desired \in DesiredFleets
    /\ current = <<>>
    /\ needed = <<>>
    /\ fleetPc = "idle"
    /\ InitIdle

NextReconcile ==
    \/ QueryActive
    \/ DiffFleet
    \/ RequestInstances
    \/ \E k \in 1..Len(instances) : InstanceRuns(k)
    \/ \E k \in 1..Len(instances) : InstanceLeaves(k)

SpecReconcile == InitReconcile /\ [][NextReconcile]_vars

(***************************************************************************)
(* SpecHeal: the timed shutdown under a driver that keeps polling.  The     *)
(* caller of stop_finished_services is not part of aws.py; it is taken to   *)
(* call again and again, with a clock that goes on, and the ECS API is      *)
(* taken not to fail a step's update_service at every poll.                 *)
(***************************************************************************)
HealSteps == SinglePlanSteps

\* one poll of the driver: stop_finished_services(start_time, steps)
HealPoll == StopAllDue(1, StartTimes, ClockValues)

\* a poll made once the clock has passed every deadline, whose
\* update_service call for step i was made and succeeded
PollStops(i) ==
    /\ ReadStatus(steps[1][i]) = "STARTED"
    /\ StopAllDue(1, StartTimes, LateClock)
    /\ ReadStatus(steps'[1][i]) = "STOPPED"

InitHeal ==
    /\ InitEcs({HealSteps}, {<<>>}, {[r \in Runs |-> FALSE]})
    /\ InitFleetIdle
    /\ InitIdle

NextHeal ==
    \/ \E i \in 1..Len(steps[1]) : CreateService(1, i)
    \/ HealPoll

\* the driver goes on polling, the clock goes on, and update_service does
\* not fail for a step at every poll
HealFairness == \A i \in 1..Len(HealSteps) : WF_vars(PollStops(i))

SpecHeal == InitHeal /\ [][NextHeal]_vars /\ HealFairness

(***************************************************************************)
(* Properties                                                              *)
(***************************************************************************)
StopOps == {"stop_finished_service", "stop_finished_services"}
\* the steps of the run that made the last call, and their statuses before
\* (last.pre) and after it
LastSteps == IF last.op = "none" THEN <<>> ELSE steps[last.run]
StatusBefore(i) == last.pre[i]
StatusAfter(i) == Status(LastSteps[i])
\* the seconds a step runs for, from the plan start
Deadline(step) ==
    (IF "run_delay" \in DOMAIN step THEN step.run_delay ELSE 0)
        + step.run_max_time

C2_Idempotent ==
    /\ \A i \in 1..Len(steps[1]) : stopOk[1][i] <= 1
    /\ last.op \in StopOps =>
         \A i \in 1..Len(LastSteps) :
            StatusBefore(i) = "STOPPED" =>
               /\ ~Attempted("update_service", LastSteps[i].name)
               /\ StatusAfter(i) = "STOPPED"
    /\ (last.op = "stop_finished_service"
          /\ StatusBefore(last.step) = "STOPPED") => last.calls = <<>>

\* a second call on a step that a first call has stopped
C2_Witness ==
    /\ last.op = "stop_finished_service"
    /\ StatusBefore(last.step) = "STOPPED"
    /\ stopOk[1][last.step] = 1
    /\ last.calls = <<>>

\* C3: when stop_finished_services returns normally, a step that was not
\* STOPPED before is STOPPED exactly when now - start_time >= run_delay +
\* run_max_time, and a step not yet due keeps its status and gets no
\* scale-down call; with steps (0, 140) and (10, 60), at elapsed 50 neither
\* is stopped and at elapsed 145 both are.
C3_StopAllDue ==
    (last.op = "stop_finished_services" /\ last.raised = "none") =>
        /\ \A i \in 1..Len(LastSteps) :
             LET due == last.nows[i] - last.start >= Deadline(LastSteps[i])
             IN  StatusBefore(i) # "STOPPED" =>
                    /\ StatusAfter(i) = "STOPPED" <=> due
                    /\ ~due => /\ StatusAfter(i) = StatusBefore(i)
                               /\ ~Attempted("update_service",
                                             LastSteps[i].name)
        /\ (last.start = 0 /\ last.nows = <<50, 50>>) =>
              \A i \in 1..2 : StatusAfter(i) = StatusBefore(i)
        /\ (last.start = 0 /\ last.nows = <<145, 145>>) =>
              \A i \in 1..2 : StatusAfter(i) = "STOPPED"

\* both steps of the scenario stopped by one call at elapsed 145
C3_Witness ==
    /\ last.op = "stop_finished_services"
    /\ last.raised = "none"
    /\ last.start = 0
    /\ last.nows = <<145, 145>>
    /\ last.pre = <<"STARTED", "STARTED">>
    /\ \A i \in 1..2 : StatusAfter(i) = "STOPPED"

\* the last call was a shutdown_plan that returned normally
TornDown == last.op = "shutdown_plan" /\ last.raised = "none"
Tear_down == plan[last.run]["influx_options"]["tear_down"]
\* the call after the k-th of the last handler, if any
Follows(k, api, target) ==
    /\ k < Len(last.calls)
    /\ last.calls[k + 1].api = api
    /\ last.calls[k + 1].target = target

\* C4 (as claimed): in shutdown_plan, for every service in the set to
\* delete a scale-to-zero update and then a delete are attempted, the delete
\* also when the scale-to-zero failed.
C4_DeleteAlwaysAttempted ==
    TornDown =>
        \A k \in 1..Len(last.toDelete) :
            /\ Attempted("update_service", last.toDelete[k])
            /\ Attempted("delete_service", last.toDelete[k])

\* C4 (amended): in a shutdown_plan that returns normally, for every
\* service in the set to delete exactly one
\* scale-to-zero update is attempted; the delete is attempted, straight
\* after it, exactly when that update succeeded, and is skipped when the
\* update failed with a ClientError, after which the remaining services are
\* still processed.
C4_DeleteOnlyAfterScaleDown ==
    TornDown =>
        /\ \A k \in 1..Len(last.toDelete) :
             LET arn == last.toDelete[k]
             IN  /\ NumAttempts("update_service", arn) = 1
                 /\ Attempted("delete_service", arn)
                       <=> Made("update_service", arn, "ok")
                 /\ NumAttempts("delete_service", arn) <= 1
        /\ \A c \in 1..Len(last.calls) :
             last.calls[c].api = "update_service" =>
                /\ InSeq(last.toDelete, last.calls[c].target)
                /\ last.calls[c].result = "ok"
                      => Follows(c, "delete_service", last.calls[c].target)
                /\ last.calls[c].result # "ok"
                      => ~Follows(c, "delete_service", last.calls[c].target)

\* two services, the scale-to-zero of one fails, the other is still deleted
C4_Witness ==
    /\ TornDown
    /\ Len(last.toDelete) = 2
    /\ \E a, b \in 1..2 :
          /\ Made("update_service", last.toDelete[a], "ClientError")
          /\ ~Attempted("delete_service", last.toDelete[a])
          /\ Made("delete_service", last.toDelete[b], "ok")

C6_MetricsPreserved ==
    last.op = "shutdown_plan" =>
        /\ ~Tear_down =>
             \A k \in 1..Len(last.calls) :
                /\ last.calls[k].api \in {"update_service", "delete_service"}
                      => last.calls[k].target # "service/metrics"
                /\ last.calls[k].api \in {"describe_task_definition",
                                           "deregister_task_definition"}
                      => last.calls[k].target # "ardere-test-metrics"
        /\ (~Tear_down /\ Made("describe_services", "metrics", "ok")) =>
             /\ \A k \in 1..Len(last.listed) :
                   last.listed[k] # "service/metrics"
                      => InSeq(last.toDelete, last.listed[k])
             /\ ~InSeq(last.toDelete, "service/metrics")
        /\ (Tear_down /\ Made("list_services", ecs_name, "ok")) =>
             /\ last.toDelete = last.listed
             /\ ~Attempted("describe_services", "metrics")
        /\ TornDown =>
             /\ \A k \in 1..Len(last.toDelete) :
                   Attempted("update_service", last.toDelete[k])
             /\ Tear_down =>
                   Attempted("describe_task_definition",
                             "ardere-test-metrics")

\* the metrics service survives a teardown that removed the step's service
C6_Witness ==
    /\ TornDown
    /\ ~Tear_down
    /\ InSeq(last.listed, "service/metrics")
    /\ Made("delete_service", "service/TestCluster", "ok")
    /\ "service/metrics" \in DOMAIN services
    /\ "ardere-test-metrics" \in DOMAIN taskDefs

\* the family names a teardown of the last run has to look up
ExpectedFamilies ==
    {LastSteps[i].name \o "-" \o plan[last.run].plan_run_uuid :
        i \in 1..Len(LastSteps)}
    \cup (IF Tear_down THEN {"ardere-test-metrics"} ELSE {})

\* the look-ups and deregistrations of the last call, family by family
FamiliesHandled ==
    /\ \A fam \in ExpectedFamilies :
          /\ NumAttempts("describe_task_definition", fam) = 1
          /\ Made("describe_task_definition", fam, "ok")
                <=> Attempted("deregister_task_definition", fam)
    /\ \A k \in 1..Len(last.calls) :
          last.calls[k].api \in {"describe_task_definition",
                                 "deregister_task_definition"}
             => last.calls[k].target \in ExpectedFamilies

OtherRunSteps ==
    {<<r1, i, r2, j>> \in Runs \X {1} \X Runs \X {1} :
        r1 # r2 /\ i \in 1..Len(steps[r1]) /\ j \in 1..Len(steps[r2])}

\* C8 (as claimed): two runs with distinct run identifiers never create two
\* resources (task-definition families, cluster services) of the same name,
\* also when both plans hold a step of the same name.
C8_NoSharedNames ==
    \A q \in OtherRunSteps :
        LET a == steps[q[1]][q[2]]
            b == steps[q[3]][q[4]]
        IN  /\ ("taskArn" \in DOMAIN a /\ "taskArn" \in DOMAIN b)
                  => a.taskArn.family # b.taskArn.family
            /\ ("serviceArn" \in DOMAIN a /\ "serviceArn" \in DOMAIN b)
                  => a.serviceArn # b.serviceArn

\* C8 (amended): the task-definition family name is the step name, a dash
\* and the run identifier, so two runs with distinct identifiers (of hex
\* digits, as the generated ones are) never register the same family, also
\* for steps of the same name; the cluster service is named after the step
\* alone, so two runs holding a step of the same name create services of the
\* same name.
C8_FamilyNamesDistinct ==
    /\ \A q \in OtherRunSteps :
          LET a == steps[q[1]][q[2]]
              b == steps[q[3]][q[4]]
          IN  /\ ("taskArn" \in DOMAIN a /\ "taskArn" \in DOMAIN b)
                    => a.taskArn.family # b.taskArn.family
              /\ ("serviceArn" \in DOMAIN a /\ "serviceArn" \in DOMAIN b
                    /\ a.name = b.name)
                    => a.serviceArn = b.serviceArn
    /\ \A r \in Runs : \A i \in 1..Len(steps[r]) :
          /\ "taskArn" \in DOMAIN steps[r][i] =>
                steps[r][i].taskArn.family
                    = steps[r][i].name \o "-" \o plan[r].plan_run_uuid
          /\ "serviceArn" \in DOMAIN steps[r][i] =>
                steps[r][i].serviceArn = "service/" \o steps[r][i].name

\* both runs have registered the family, and created the service, of a step
\* of the same name
C8_Witness ==
    /\ steps[1][1].name = steps[2][1].name
    /\ \A r \in Runs : /\ "taskArn" \in DOMAIN steps[r][1]
                       /\ "serviceArn" \in DOMAIN steps[r][1]

\* C9 (as claimed): the shutdown_plan of one run scales down, deletes or
\* deregisters only services and task definitions that run created.
C9_OnlyOwnResources ==
    last.op = "shutdown_plan" =>
        \A k \in 1..Len(last.calls) :
            (/\ last.calls[k].api \in {"update_service", "delete_service",
                                       "deregister_task_definition"}
             /\ last.calls[k].result = "ok")
                => last.calls[k].owner = last.run

\* C9 (amended): a shutdown_plan of one run that returns normally looks up
\* and deregisters the families of its own steps (and the cluster's metrics
\* family when tear down is requested) and no task definition another run
\* registered for a step; but, when none of its remote calls fails, it
\* scales down and deletes every service listed on the cluster, whichever
\* run created it, the metrics service alone excepted when it is to be
\* preserved.
C9_OwnFamiliesAllServices ==
    TornDown =>
        /\ \A k \in 1..Len(last.calls) :
              last.calls[k].api \in {"describe_task_definition",
                                     "deregister_task_definition"}
                 => /\ last.calls[k].target \in ExpectedFamilies
                    /\ last.calls[k].result = "ok"
                          => \/ last.calls[k].owner = last.run
                             \/ last.calls[k].target = "ardere-test-metrics"
        /\ \A fam \in ExpectedFamilies :
              Attempted("describe_task_definition", fam)
        /\ \A k \in 1..Len(last.listed) :
              LET arn == last.listed[k]
              IN  IF arn = "service/metrics" /\ ~Tear_down
                  THEN ~Attempted("update_service", arn)
                  ELSE /\ Made("update_service", arn, "ok")
                       /\ Made("delete_service", arn, "ok")
                       /\ arn \notin DOMAIN services

\* a teardown of one run deleted a service the other run had created
C9_Witness ==
    /\ TornDown
    /\ \E k \in 1..Len(last.calls) :
          /\ last.calls[k].api = "delete_service"
          /\ last.calls[k].result = "ok"
          /\ last.calls[k].owner \in Runs \ {last.run}
          /\ last.calls[k].target # "service/metrics"

\* C10: calculate_missing_instances(desired, current) has an entry for a
\* type exactly when desired[type] > current.get(type, 0); the entry is the
\* difference, so no entry is zero or negative, and current plus the result
\* covers desired; current {t2.medium: 1} and desired {t2.medium: 1,
\* c4.large: 2} give {c4.large: 2}.
C10_MissingInstances ==
    fleetPc = "diffed" =>
        LET cur(t) == IF t \in DOMAIN current THEN current[t] ELSE 0
            add(t) == IF t \in DOMAIN needed THEN needed[t] ELSE 0
        IN  /\ DOMAIN needed \subseteq DOMAIN desired
            /\ \A t \in DOMAIN desired :
                  /\ t \in DOMAIN needed <=> desired[t] > cur(t)
                  /\ t \in DOMAIN needed =>
                        /\ needed[t] = desired[t] - cur(t)
                        /\ needed[t] > 0
                  /\ cur(t) + add(t) >= desired[t]
            /\ (/\ current = [t \in {"t2.medium"} |-> 1]
                /\ desired = [t \in {"t2.medium", "c4.large"} |->
                                IF t = "t2.medium" THEN 1 ELSE 2])
                  => needed = [t \in {"c4.large"} |-> 2]

\* the scenario of the claim, diffed
C10_Witness ==
    /\ fleetPc = "diffed"
    /\ current = [t \in {"t2.medium"} |-> 1]
    /\ desired = [t \in {"t2.medium", "c4.large"} |->
                    IF t = "t2.medium" THEN 1 ELSE 2]
    /\ needed = [t \in {"c4.large"} |-> 2]

\* the shapes of a describe_services response
RespServices(resp) == resp.v["services"]
HasServiceDict(resp) ==
    /\ RespServices(resp).t = "list"
    /\ Len(RespServices(resp).v) > 0
NoService(resp) ==
    /\ RespServices(resp).t = "list"
    /\ Len(RespServices(resp).v) = 0
FirstService(resp) == RespServices(resp).v[1].v
NoDeployments(resp) ==
    /\ HasServiceDict(resp)
    /\ "deployments" \in DOMAIN FirstService(resp)
    /\ FirstService(resp)["deployments"].t = "list"
    /\ Len(FirstService(resp)["deployments"].v) = 0
LacksDeploymentInfo(resp) ==
    \/ RespServices(resp).t = "None"
    \/ /\ HasServiceDict(resp)
       /\ \/ "deployments" \notin DOMAIN FirstService(resp)
          \/ FirstService(resp)["deployments"].t = "None"
FirstDeployment(resp) == FirstService(resp)["deployments"].v[1].v
\* service_ready was called and its describe_services call answered
Described == last.op = "service_ready" /\ last.calls[1].result = "ok"

C12_AllReadyNoSideEffect ==
    pool.op = "all_services_ready" =>
        /\ (pool.phase = "running" \/ last.op = "all_services_ready") =>
              /\ steps[pool.run] = pool.snap.steps
              /\ services = pool.snap.services
              /\ taskDefs = pool.snap.taskDefs
              /\ \A i \in 1..Len(pool.futures) :
                    pool.futures[i].state = "done" =>
                       \A k \in 1..Len(pool.futures[i].calls) :
                          pool.futures[i].calls[k].api = "describe_services"
        /\ (pool.phase = "returned" /\ pool.result.exc = "none") =>
              (pool.result.val <=>
                  \A i \in 1..Len(pool.futures) :
                     pool.futures[i].result = Val(TRUE))

\* both steps ready, the check of the second completed first; the call
\* returned True
C12_Witness ==
    /\ pool.op = "all_services_ready"
    /\ pool.phase = "returned"
    /\ pool.order = <<2, 1>>
    /\ pool.result = Val(TRUE)
    /\ last.op = "all_services_ready"

\* one step ready, the other not: the call returned False
C12_WitnessNotReady ==
    /\ pool.op = "all_services_ready"
    /\ pool.phase = "returned"
    /\ pool.result = Val(FALSE)
    /\ pool.futures[1].result = Val(TRUE)
    /\ pool.futures[2].result = Val(FALSE)

\* the batch that create_services was called with, and its futures
Batch == pool.snap.steps
BatchReturned == pool.op = "create_services" /\ pool.phase = "returned"
\* the future of step i raised
Failed(i) ==
    pool.futures[i].state = "done" /\ pool.futures[i].result.exc # "none"

Healthy(i) ==
    LET step == Batch[i]
    IN  /\ step["instance_type"] \in DOMAIN ec2_vcpu_by_type
        /\ Site("register_task_definition", create_family(pool.run, step))
              \notin DOMAIN pool.snap.faults
        /\ Site("create_service", ServiceArn(service_name(step)))
              \notin DOMAIN pool.snap.faults
        /\ ServiceArn(service_name(step)) \notin DOMAIN pool.snap.services

\* C14: when create_service fails for one step inside create_services, the
\* failure surfaces to the caller, and the creation of every other step
\* still runs to its own outcome: every step whose remote calls succeed has
\* its service created and its status STARTED, wherever the failing step
\* sits in the batch.
C14_FailureSurfacesOthersRun ==
    BatchReturned =>
        /\ (\E i \in 1..Len(Batch) : Failed(i)) <=> pool.result.exc # "none"
        /\ \A i \in 1..Len(Batch) :
              /\ pool.futures[i].state = "done"
              /\ Healthy(i) =>
                    /\ ~Failed(i)
                    /\ Status(steps[pool.run][i]) = "STARTED"
                    /\ "taskArn" \in DOMAIN steps[pool.run][i]
                    /\ ServiceArn(service_name(Batch[i])) \in DOMAIN services
                    /\ services[ServiceArn(service_name(Batch[i]))].desiredCount
                          = Batch[i]["instance_count"]
        /\ pool.result.exc # "none" =>
              \E i \in 1..Len(Batch) :
                 /\ Failed(i)
                 /\ pool.result = pool.futures[i].result
                 /\ \A j \in 1..(i - 1) : ~Failed(j)

\* the first step of three failed, and failed before the others had begun;
\* the other two were created all the same
C14_Witness ==
    /\ BatchReturned
    /\ Len(Batch) = 3
    /\ pool.result.exc = "ClientError"
    /\ Failed(1)
    /\ pool.order[1] = 1
    /\ \A i \in {2, 3} : Status(steps[pool.run][i]) = "STARTED"

\* C15: create_service sets a step's status to STARTED only after both the
\* task-definition registration and the service creation have succeeded, so
\* in every reachable state a STARTED or STOPPED step has both its taskArn
\* and its serviceArn; if the service creation fails after the task
\* definition was registered, the status is left unchanged.
C15_StartedOnlyAfterBoth ==
    /\ \A r \in Runs : \A i \in 1..Len(steps[r]) :
          Status(steps[r][i]) \in {"STARTED", "STOPPED"} =>
             /\ "taskArn" \in DOMAIN steps[r][i]
             /\ "serviceArn" \in DOMAIN steps[r][i]
    /\ last.op = "create_service" =>
          LET step == LastSteps[last.step]
              fam == step["name"] \o "-" \o plan[last.run].plan_run_uuid
              arn == "service/" \o step["name"]
          IN  /\ StatusAfter(last.step) # StatusBefore(last.step) =>
                    /\ StatusAfter(last.step) = "STARTED"
                    /\ Made("register_task_definition", fam, "ok")
                    /\ Made("create_service", arn, "ok")
              /\ last.raised # "none" =>
                    StatusAfter(last.step) = StatusBefore(last.step)
              /\ (Made("register_task_definition", fam, "ok")
                    /\ Made("create_service", arn, "ClientError")) =>
                    /\ "taskArn" \in DOMAIN step
                    /\ StatusAfter(last.step) = StatusBefore(last.step)

\* the task definition was registered, the service creation failed: the
\* step holds its taskArn and is still PENDING
C15_Witness ==
    /\ last.op = "create_service"
    /\ Made("register_task_definition",
            LastSteps[last.step]["name"] \o "-"
                \o plan[last.run].plan_run_uuid, "ok")
    /\ last.raised = "ClientError"
    /\ "taskArn" \in DOMAIN LastSteps[last.step]
    /\ "serviceArn" \notin DOMAIN LastSteps[last.step]
    /\ StatusAfter(last.step) = "PENDING"

\* C16: create_service registers the task definition with the step's
\* explicit cpu_units whenever the step declares one, and otherwise with
\* vcpu(instance_type) * 1024 - 512; the KeyError of the vcpu lookup arises
\* only for a step that declares no cpu_units and whose instance type is
\* not in the table.
C16_ExplicitCpuUnitsUsed ==
    pool.op = "create_services" =>
        \A i \in 1..Len(Batch) :
            pool.futures[i].state \in {"registered", "done"} =>
                LET step == Batch[i]
                    fut == pool.futures[i]
                    known == step["instance_type"]
                                \in DOMAIN ec2_vcpu_by_type
                IN  /\ "cpu_units" \in DOMAIN step =>
                          /\ Len(fut.calls) >= 1
                          /\ fut.calls[1].api = "register_task_definition"
                          /\ fut.calls[1].arg = step["cpu_units"]
                    /\ ("cpu_units" \notin DOMAIN step /\ known) =>
                          /\ Len(fut.calls) >= 1
                          /\ fut.calls[1].api = "register_task_definition"
                          /\ fut.calls[1].arg =
                                ec2_vcpu_by_type[step["instance_type"]] * 1024
                                   - 512
                    /\ (fut.state = "done" /\ fut.result.exc = "KeyError")
                          => ("cpu_units" \notin DOMAIN step /\ ~known)

\* the last call was a request_instances; the launches it made
Requested == last.op = "request_instances"
Launches ==
    {k \in 1..Len(last.calls) : last.calls[k].api = "run_instances"}
Taggings ==
    {k \in 1..Len(last.calls) : last.calls[k].api = "create_tags"}
LaunchedIds == {last.launched[k] : k \in 1..Len(last.launched)}

\* C17: request_instances issues one launch per instance type with a
\* positive required count, sized exactly to that count, and exactly one
\* tagging call, made only after every launch has succeeded and covering
\* every instance launched in the call; if a launch fails the failure
\* propagates, no tagging call is made and the instances launched earlier
\* in the call remain, untagged.
C17_LaunchThenTagOnce ==
    Requested =>
        /\ \A t \in DOMAIN needed : needed[t] > 0
        /\ \A k \in Launches :
              /\ last.calls[k].target \in DOMAIN needed
              /\ last.calls[k].arg = needed[last.calls[k].target]
              /\ \A j \in Launches :
                    last.calls[j].target = last.calls[k].target => j = k
        /\ \A k \in Launches :
              last.calls[k].result = "ok" =>
                 Cardinality({id \in LaunchedIds :
                     instances[id].type = last.calls[k].target})
                   = needed[last.calls[k].target]
        /\ (\A k \in Launches : last.calls[k].result = "ok") =>
              /\ \A t \in DOMAIN needed : Attempted("run_instances", t)
              /\ Taggings = {Len(last.calls)}
              /\ last.calls[Len(last.calls)].arg = LaunchedIds
              /\ Cardinality(LaunchedIds) = Total(needed)
              /\ last.raised = last.calls[Len(last.calls)].result
                    \/ (last.raised = "none"
                         /\ last.calls[Len(last.calls)].result = "ok")
        /\ (\E k \in Launches : last.calls[k].result # "ok") =>
              /\ last.raised # "none"
              /\ Taggings = {}
              /\ last.calls[Len(last.calls)].result = last.raised
        /\ last.raised # "none" =>
              \A id \in LaunchedIds :
                 id \in 1..Len(instances) /\ ~instances[id].tagged
        /\ last.raised = "none" =>
              \A id \in LaunchedIds : instances[id].tagged

\* the launch of the second type failed: the instances of the first are
\* there, untagged, and no tagging call was made
C17_Witness ==
    /\ Requested
    /\ last.raised = "ClientError"
    /\ Cardinality(Launches) = 2
    /\ Taggings = {}
    /\ LaunchedIds # {}
    /\ \A id \in LaunchedIds : ~instances[id].tagged /\ instances[id].code = 0

\* the instances of a type that are pending or running, tagged or not
Live(t) ==
    Cardinality({k \in 1..Len(instances) :
                    instances[k].type = t /\ instances[k].code <= 16})
NoneLeft == \A k \in 1..Len(instances) : instances[k].code <= 16

C19_RepeatedPassLaunchesNothing ==
    /\ (settled = "settled" /\ fleetPc = "diffed") => needed = <<>>
    /\ (Requested /\ last.pre = "settled") =>
          /\ Launches = {}
          /\ last.launched = <<>>
    /\ settled = "settled" =>
          \A t \in DOMAIN desired :
             Cardinality({k \in 1..Len(instances) :
                 /\ instances[k].type = t
                 /\ instances[k].tagged
                 /\ instances[k].code <= 16}) >= desired[t]

\* a second pass after a successful one that launched three instances, one
\* of them still pending: nothing was missing and nothing was launched
C19_Witness ==
    /\ Requested
    /\ last.pre = "settled"
    /\ last.raised = "none"
    /\ Total(desired) = 3
    /\ \E k \in 1..Len(instances) : instances[k].code = 0
    /\ \E k \in 1..Len(instances) : instances[k].code = 16

\* C20: if the scale-to-zero call of stop_finished_service fails, the
\* failure propagates and the step's status is left unchanged, so a step is
\* STOPPED only if a scale-to-zero call for its service has succeeded, and
\* the next call that finds the step due attempts the scale-down again;
\* within stop_finished_services such a failure leaves every later step
\* unprocessed.
C20_FailedStopLeavesStarted ==
    /\ \A r \in Runs : \A i \in 1..Len(steps[r]) :
          Status(steps[r][i]) = "STOPPED" => stopOk[r][i] >= 1
    /\ last.op \in StopOps =>
          /\ \A k \in 1..Len(last.calls) :
                last.calls[k].result # "ok" =>
                   /\ last.raised = last.calls[k].result
                   /\ k = Len(last.calls)
          /\ \A i \in 1..Len(LastSteps) :
                /\ Made("update_service", LastSteps[i]["name"], "ClientError")
                      => StatusAfter(i) = StatusBefore(i)
                /\ StatusAfter(i) # StatusBefore(i)
                      => Made("update_service", LastSteps[i]["name"], "ok")
          /\ last.raised = "none" =>
                \A k \in 1..Len(last.calls) : last.calls[k].result = "ok"
    \* a STARTED step that is due gets a scale-down call, whatever happened
    \* to the calls before
    /\ (/\ last.op = "stop_finished_service"
        /\ StatusBefore(last.step) = "STARTED"
        /\ last.nows # <<>>
        /\ last.nows[1] - last.start >= Deadline(LastSteps[last.step]))
          => Attempted("update_service", LastSteps[last.step]["name"])
    /\ last.op = "stop_finished_services" =>
          \A i \in 1..Len(LastSteps) :
             Made("update_service", LastSteps[i]["name"], "ClientError") =>
                \A j \in (i + 1)..Len(LastSteps) :
                   /\ StatusAfter(j) = StatusBefore(j)
                   /\ ~Attempted("update_service", LastSteps[j]["name"])

\* the scale-down of the first step failed in stop_finished_services: it
\* is still STARTED and the second step, due as well, was not touched
C20_Witness ==
    /\ last.op = "stop_finished_services"
    /\ last.raised = "ClientError"
    /\ last.pre = <<"STARTED", "STARTED">>
    /\ last.start = 0
    /\ last.nows = <<145, 145>>
    /\ Made("update_service", LastSteps[1]["name"], "ClientError")
    /\ StatusAfter(1) = "STARTED"
    /\ StatusAfter(2) = "STARTED"

\* step i of run 1 is STARTED / STOPPED
Started(i) == Status(steps[1][i]) = "STARTED"
Stopped(i) == Status(steps[1][i]) = "STOPPED"
\* the loop of stop_finished_services gets to step i: no step before it
\* makes the read of service_status raise
Polled(i) == \A j \in 1..(i - 1) : HasKey(steps[1][j], "service_status")

\* a poll made after the deadline had passed (the poll at the deadline was
\* missed) whose scale-down call for the step succeeded stops it
LatePollStops ==
    last.op = "stop_finished_services" =>
        \A i \in 1..Len(LastSteps) :
            (/\ StatusBefore(i) = "STARTED"
             /\ last.nows[i] - last.start > Deadline(LastSteps[i])
             /\ Made("update_service", LastSteps[i]["name"], "ok"))
                => StatusAfter(i) = "STOPPED"

\* C21: while the driver keeps calling stop_finished_services and the clock
\* goes on, whatever polls were missed, every STARTED step the calls get to
\* is eventually STOPPED, its scale-to-zero call not failing for ever; and
\* a poll made after the deadline, not only one made at it, stops the step
\* when its scale-to-zero call succeeds.
C21_SelfHeals ==
    /\ \A i \in 1..Len(HealSteps) :
          (Started(i) /\ Polled(i)) ~> Stopped(i)
    /\ []LatePollStops

\* the db step (deadline 70) was still STARTED when the clock had passed
\* 140: the polls around its deadline were missed, and the poll at 145
\* stopped it
C21_Witness ==
    /\ last.op = "stop_finished_services"
    /\ last.start = 0
    /\ last.nows = <<145, 145>>
    /\ StatusBefore(2) = "STARTED"
    /\ Made("update_service", LastSteps[2]["name"], "ok")
    /\ StatusAfter(2) = "STOPPED"

====
